---- MODULE Spec2Model ----
(***************************************************************************)
(* Model of scripts/sync_onedrive_to_datajson.mjs (and of its earlier      *)
(* copy with the single-request fetch): the download with retries and the  *)
(* heuristic extraction of the four tables of the first worksheet.         *)
(*                                                                         *)
(* JavaScript strings are sequences of characters; a character is a one    *)
(* letter TLA+ string, an accented letter is named ("i_acute").  A         *)
(* JavaScript value is a record tagged by its type in field t.  Numbers    *)
(* are kept in hundredths, so that 1234.56 is 123456.                      *)
(***************************************************************************)
EXTENDS Integers, Sequences, FiniteSets

(***************************************************************************)
(* JavaScript values                                                       *)
(***************************************************************************)
Str(s) == [t |-> "str", s |-> s]
Num(h) == [t |-> "num", v |-> h]
Undefined == [t |-> "undefined"]
Null == [t |-> "null"]
\* Object (the constructor function) and Object.prototype, the two values
\* every plain object inherits under an all-lowercase property name.
ObjectFunction == [t |-> "function"]
ObjectPrototype == [t |-> "object"]

Digits == <<"0", "1", "2", "3", "4", "5", "6", "7", "8", "9">>
IsDigit(c) == \E i \in 1..10 : Digits[i] = c
DigitVal(c) == (CHOOSE i \in 1..10 : Digits[i] = c) - 1

RECURSIVE NatToString(_)
NatToString(n) ==
  IF n < 10 THEN <<Digits[n + 1]>>
  ELSE NatToString(n \div 10) \o <<Digits[(n % 10) + 1]>>

\* Number.prototype.toString for a finite number with at most two decimals.
NumberToString(h) ==
  LET a == IF h < 0 THEN -h ELSE h
      ip == a \div 100
      fp == a % 100
      frac == IF fp = 0 THEN <<>>
              ELSE IF fp % 10 = 0 THEN <<".", Digits[(fp \div 10) + 1]>>
              ELSE <<".", Digits[(fp \div 10) + 1], Digits[(fp % 10) + 1]>>
  IN (IF h < 0 THEN <<"-">> ELSE <<>>) \o NatToString(ip) \o frac

\* String(x)
JsString(x) ==
  CASE x.t = "str" -> x.s
    [] x.t = "num" -> NumberToString(x.v)
    [] x.t = "undefined" -> <<"u", "n", "d", "e", "f", "i", "n", "e", "d">>
    [] x.t = "null" -> <<"n", "u", "l", "l">>
    [] x.t = "function" ->
         <<"f", "u", "n", "c", "t", "i", "o", "n", " ", "O", "b", "j", "e", "c", "t",
           "(", ")", " ", "{", " ", "[", "n", "a", "t", "i", "v", "e", " ",
           "c", "o", "d", "e", "]", " ", "}">>
    [] x.t = "object" ->
         <<"[", "o", "b", "j", "e", "c", "t", " ", "O", "b", "j", "e", "c", "t", "]">>

\* ToBoolean(x)
Truthy(x) ==
  CASE x.t = "str" -> x.s # <<>>
    [] x.t = "num" -> x.v # 0
    [] x.t = "undefined" -> FALSE
    [] x.t = "null" -> FALSE
    [] OTHER -> TRUE

(***************************************************************************)
(* String.prototype.trim, toLowerCase, padStart                            *)
(***************************************************************************)
IsSpace(c) == c = " "

RECURSIVE TrimStart(_)
TrimStart(s) ==
  IF s # <<>> /\ IsSpace(Head(s)) THEN TrimStart(Tail(s)) ELSE s

RECURSIVE TrimEnd(_)
TrimEnd(s) ==
  IF s # <<>> /\ IsSpace(s[Len(s)]) THEN TrimEnd(SubSeq(s, 1, Len(s) - 1)) ELSE s

Trim(s) == TrimEnd(TrimStart(s))

UpperToLower ==
  [A |-> "a", B |-> "b", C |-> "c", D |-> "d", E |-> "e", F |-> "f", G |-> "g",
   H |-> "h", I |-> "i", J |-> "j", K |-> "k", L |-> "l", M |-> "m", N |-> "n",
   O |-> "o", P |-> "p", Q |-> "q", R |-> "r", S |-> "s", T |-> "t", U |-> "u",
   V |-> "v", W |-> "w", X |-> "x", Y |-> "y", Z |-> "z",
   I_ACUTE |-> "i_acute", A_ACUTE |-> "a_acute", C_CEDILLA |-> "c_cedilla"]

LowerChar(c) == IF c \in DOMAIN UpperToLower THEN UpperToLower[c] ELSE c

ToLowerCase(s) == [i \in 1..Len(s) |-> LowerChar(s[i])]

RECURSIVE PadStart(_, _, _)
PadStart(s, n, c) == IF Len(s) >= n THEN s ELSE PadStart(<<c>> \o s, n, c)

(***************************************************************************)
(* brlToNumber                                                             *)
(***************************************************************************)
NaN == [t |-> "nan"]

\* s.replace(/R\$\s?/g, "")
RECURSIVE StripCurrency(_)
StripCurrency(s) ==
  IF s = <<>> THEN <<>>
  ELSE IF Len(s) >= 2 /\ s[1] = "R" /\ s[2] = "$"
       THEN IF Len(s) >= 3 /\ IsSpace(s[3])
            THEN StripCurrency(SubSeq(s, 4, Len(s)))
            ELSE StripCurrency(SubSeq(s, 3, Len(s)))
       ELSE <<Head(s)>> \o StripCurrency(Tail(s))

\* s.replace(/\./g, "")
RECURSIVE StripDots(_)
StripDots(s) ==
  IF s = <<>> THEN <<>>
  ELSE IF Head(s) = "." THEN StripDots(Tail(s))
       ELSE <<Head(s)>> \o StripDots(Tail(s))

\* s.replace(/,/g, ".")
CommasToDots(s) == [i \in 1..Len(s) |-> IF s[i] = "," THEN "." ELSE s[i]]

AllDigits(s) == \A i \in 1..Len(s) : IsDigit(s[i])

RECURSIVE DigitsToNat(_)
DigitsToNat(s) ==
  IF s = <<>> THEN 0
  ELSE DigitsToNat(SubSeq(s, 1, Len(s) - 1)) * 10 + DigitVal(s[Len(s)])

\* The fraction digits of a decimal literal, in hundredths.  The cells of the
\* model carry at most two decimals.
FractionHundredths(f) ==
  IF f = <<>> THEN 0
  ELSE IF Len(f) = 1 THEN DigitVal(f[1]) * 10
  ELSE DigitVal(f[1]) * 10 + DigitVal(f[2])

\* Number(s) for a string: the StringNumericLiteral grammar without exponents,
\* Infinity and the 0x/0o/0b forms, none of which occurs in the cells of the model.
StringToNumber(str) ==
  LET s == Trim(str)
      signed == s # <<>> /\ (Head(s) = "-" \/ Head(s) = "+")
      body == IF signed THEN Tail(s) ELSE s
      dots == {i \in 1..Len(body) : body[i] = "."}
      ip == IF dots = {} THEN body
            ELSE SubSeq(body, 1, (CHOOSE i \in dots : \A j \in dots : i <= j) - 1)
      fp == IF dots = {} THEN <<>>
            ELSE SubSeq(body, (CHOOSE i \in dots : \A j \in dots : i <= j) + 1, Len(body))
      mag == DigitsToNat(ip) * 100 + FractionHundredths(fp)
  IN IF s = <<>> THEN Num(0)
     ELSE IF AllDigits(ip) /\ AllDigits(fp) /\ (ip # <<>> \/ fp # <<>>)
          THEN Num(IF signed /\ Head(s) = "-" THEN -mag ELSE mag)
          ELSE NaN

brlToNumber(v) ==
  IF v.t = "undefined" \/ v.t = "null" THEN Null
  ELSE IF v.t = "num" THEN v
  ELSE LET s == Trim(JsString(v))
           cleaned == CommasToDots(StripDots(StripCurrency(s)))
           n == StringToNumber(cleaned)
       IN IF s = <<>> THEN Null
          ELSE IF n.t = "num" THEN n ELSE Null

(***************************************************************************)
(* monthMap, normalize, isoDateFromMonth                                   *)
(***************************************************************************)
MonthNames ==
  <<<<"j", "a", "n", "e", "i", "r", "o">>,
    <<"f", "e", "v", "e", "r", "e", "i", "r", "o">>,
    <<"m", "a", "r", "c_cedilla", "o">>,
    <<"m", "a", "r", "c", "o">>,
    <<"a", "b", "r", "i", "l">>,
    <<"m", "a", "i", "o">>,
    <<"j", "u", "n", "h", "o">>,
    <<"j", "u", "l", "h", "o">>,
    <<"a", "g", "o", "s", "t", "o">>,
    <<"s", "e", "t", "e", "m", "b", "r", "o">>,
    <<"o", "u", "t", "u", "b", "r", "o">>,
    <<"n", "o", "v", "e", "m", "b", "r", "o">>,
    <<"d", "e", "z", "e", "m", "b", "r", "o">>>>

MonthNumbers == <<1, 2, 3, 3, 4, 5, 6, 7, 8, 9, 10, 11, 12>>

\* monthMap[key]: the own property when the key is one of the thirteen, otherwise
\* what the object literal inherits from Object.prototype under that name.
MonthMapGet(key) ==
  IF \E i \in 1..Len(MonthNames) : MonthNames[i] = key
  THEN Num(100 * MonthNumbers[CHOOSE i \in 1..Len(MonthNames) : MonthNames[i] = key])
  ELSE IF key = <<"c", "o", "n", "s", "t", "r", "u", "c", "t", "o", "r">> THEN ObjectFunction
  ELSE IF key = <<"_", "_", "p", "r", "o", "t", "o", "_", "_">> THEN ObjectPrototype
  ELSE Undefined

\* normalize(s) == String(s || "").trim().toLowerCase()
normalize(x) == ToLowerCase(Trim(IF Truthy(x) THEN JsString(x) ELSE <<>>))

Year == 2026

\* isoDateFromMonth(monthName, 2026): a string, or null.
isoDateFromMonth(monthName) ==
  LET mm == MonthMapGet(normalize(monthName))
  IN IF ~Truthy(mm) THEN Null
     ELSE Str(NatToString(Year) \o <<"-">> \o PadStart(JsString(mm), 2, "0")
              \o <<"-", "0", "1">>)

(***************************************************************************)
(* The grid: rows, as XLSX.utils.sheet_to_json(ws, {header: 1, defval: ""}) *)
(* returns it.  Rows and columns are numbered from 0 as in the code.       *)
(***************************************************************************)
Min(a, b) == IF a < b THEN a ELSE b

\* The length of the longest row.
MaxWidth(g) ==
  IF g = <<>> THEN 0
  ELSE CHOOSE w \in {Len(g[i]) : i \in 1..Len(g)} : \A i \in 1..Len(g) : Len(g[i]) <= w

\* rows[r], or undefined past the last row
HasRow(g, r) == r >= 0 /\ r < Len(g)
RowAt(g, r) == g[r + 1]

\* rows[r][c] of an existing row: undefined past the row's last cell
CellAt(g, r, c) ==
  IF c >= 0 /\ c < Len(RowAt(g, r)) THEN RowAt(g, r)[c + 1] ELSE Undefined

\* (rows[r] || [])[c]
CellOrUndefined(g, r, c) == IF HasRow(g, r) THEN CellAt(g, r, c) ELSE Undefined

\* x ?? ""
OrEmpty(x) == IF x.t = "undefined" \/ x.t = "null" THEN Str(<<>>) ELSE x

\* row.map(x => String(x).trim().toLowerCase())
LowerCells(row) == [i \in 1..Len(row) |-> ToLowerCase(Trim(JsString(row[i])))]

Includes(cells, s) == \E i \in 1..Len(cells) : cells[i] = s

\* arr.slice(from, to)
Slice(arr, from, to) ==
  IF from >= Len(arr) THEN <<>> ELSE SubSeq(arr, from + 1, Min(to, Len(arr)))

\* arr.indexOf / arr.findIndex over a set of accepted strings; -1 when absent
IndexOfAny(cells, accepted) ==
  IF \E i \in 1..Len(cells) : cells[i] \in accepted
  THEN (CHOOSE i \in 1..Len(cells) :
          cells[i] \in accepted /\ \A j \in 1..(i - 1) : cells[j] \notin accepted) - 1
  ELSE -1

ENTRADA == <<"e", "n", "t", "r", "a", "d", "a">>
SAIDA_ACC == <<"s", "a", "i_acute", "d", "a">>
SAIDA == <<"s", "a", "i", "d", "a">>
LIQUIDO_ACC == <<"l", "i_acute", "q", "u", "i", "d", "o">>
LIQUIDO == <<"l", "i", "q", "u", "i", "d", "o">>
TOTAL == <<"t", "o", "t", "a", "l">>
CURRENCY_TOKEN == <<"r", "$">>
NUBANK == <<"N", "u", "b", "a", "n", "k">>
SANTANDER == <<"S", "a", "n", "t", "a", "n", "d", "e", "r">>

(***************************************************************************)
(* Tabela 1                                                                *)
(***************************************************************************)
HeaderWindow == 80

IsHeaderRow(row) ==
  LET cells == LowerCells(row)
      hasEntrada == Includes(cells, ENTRADA)
      hasSaida == Includes(cells, SAIDA_ACC) \/ Includes(cells, SAIDA)
      hasLiquido == Includes(cells, LIQUIDO_ACC) \/ Includes(cells, LIQUIDO)
  IN hasEntrada /\ hasSaida /\ hasLiquido

\* The loops over rows and columns are given by what they compute: a loop that
\* runs r upwards, leaves at the first r where it breaks and pushes one element for
\* some of the r before that, pushes the elements of those r in ascending order.
Range(lo, hi) == [i \in 1..(IF hi >= lo THEN hi - lo + 1 ELSE 0) |-> lo + i - 1]

\* The first r of lo..hi that satisfies Test; none when there is no such r.
FirstOf(lo, hi, Test(_), none) ==
  CHOOSE r \in {IF hits = <<>> THEN none ELSE hits[1] :
                  hits \in {SelectSeq(Range(lo, hi), Test)}} : TRUE

\* arr.map(F)
Map(arr, F(_)) ==
  CHOOSE out \in {[i \in 1..Len(a) |-> F(a[i])] : a \in {arr}} : TRUE

\* for (r = 0; r < Math.min(rows.length, 80); r++) ... headerRow = r; break
FindHeaderRow(g) ==
  FirstOf(0, Min(Len(g), HeaderWindow) - 1, LAMBDA r : IsHeaderRow(RowAt(g, r)), -1)

\* String(x).trim() || null
TrimmedOrNull(x) ==
  LET s == Trim(JsString(x)) IN IF s = <<>> THEN Null ELSE Str(s)

\* const month = String(rows[r][0]).trim()  (also m in parseMini)
MonthCell(g, r) == Trim(JsString(CellAt(g, r, 0)))

SummaryRow(g, r) ==
  [month |-> Str(MonthCell(g, r)),
   date |-> isoDateFromMonth(Str(MonthCell(g, r))),
   entrada |-> brlToNumber(CellAt(g, r, 1)),
   saida |-> brlToNumber(CellAt(g, r, 2)),
   liquido |-> brlToNumber(CellAt(g, r, 3)),
   diferenca_m1 |-> brlToNumber(CellAt(g, r, 4)),
   crescimento |-> TrimmedOrNull(CellAt(g, r, 5))]

\* if (!month) continue; if (!monthMap[mk]) { if (mk === "total") break; continue; }
Tabela1Breaks(g, r) ==
  LET mk == normalize(Str(MonthCell(g, r)))
  IN MonthCell(g, r) # <<>> /\ ~Truthy(MonthMapGet(mk)) /\ mk = TOTAL

Tabela1Pushes(g, r) ==
  MonthCell(g, r) # <<>> /\ Truthy(MonthMapGet(normalize(Str(MonthCell(g, r)))))

\* for (r = headerRow + 1; r < rows.length; r++)
Tabela1Rows(g, headerRow) ==
  LET stop == FirstOf(headerRow + 1, Len(g) - 1, LAMBDA r : Tabela1Breaks(g, r), Len(g))
      pushed == SelectSeq(Range(headerRow + 1, stop - 1), LAMBDA r : Tabela1Pushes(g, r))
  IN Map(pushed, LAMBDA r : SummaryRow(g, r))

ParseTabela1(g) ==
  LET headerRow == FindHeaderRow(g)
  IN IF headerRow >= 0 THEN Tabela1Rows(g, headerRow) ELSE <<>>

(***************************************************************************)
(* Tabela 2 and 3: parseMini                                               *)
(***************************************************************************)
MiniWindow == 40

SeriesPoint(g, rr) ==
  [month |-> Str(MonthCell(g, rr)), date |-> isoDateFromMonth(Str(MonthCell(g, rr))),
   saida |-> brlToNumber(CellAt(g, rr, 1))]

\* if (!m) continue; if (mk === "total") break; if (!monthMap[mk]) continue;
MiniBreaks(g, rr) ==
  MonthCell(g, rr) # <<>> /\ normalize(Str(MonthCell(g, rr))) = TOTAL

MiniPushes(g, rr) ==
  MonthCell(g, rr) # <<>> /\ Truthy(MonthMapGet(normalize(Str(MonthCell(g, rr)))))

\* A loop that reads one row more: rr <= Math.min(rows.length - 1, r + 40)
MiniRowsOneMore(g, r) ==
  LET end == Min(Len(g), r + MiniWindow + 1)
      stop == FirstOf(r + 1, end - 1, LAMBDA rr : MiniBreaks(g, rr), end)
      pushed == SelectSeq(Range(r + 1, stop - 1), LAMBDA rr : MiniPushes(g, rr))
  IN Map(pushed, LAMBDA rr : SeriesPoint(g, rr))

\* for (rr = r + 1; rr < Math.min(rows.length, r + 40); rr++)
MiniRows(g, r) ==
  LET end == Min(Len(g), r + MiniWindow)
      stop == FirstOf(r + 1, end - 1, LAMBDA rr : MiniBreaks(g, rr), end)
      pushed == SelectSeq(Range(r + 1, stop - 1), LAMBDA rr : MiniPushes(g, rr))
  IN Map(pushed, LAMBDA rr : SeriesPoint(g, rr))

\* row.some(c => c.toLowerCase() === t)
RowHasTitle(row, t) == Includes(LowerCells(row), t)

\* for (r = 0; r < rows.length; r++) if (row.some(...)) { ...; return data; }
TitleRow(g, t) == FirstOf(0, Len(g) - 1, LAMBDA r : RowHasTitle(RowAt(g, r), t), -1)

parseMini(g, title) ==
  LET r == TitleRow(g, ToLowerCase(title))
  IN IF r >= 0 THEN MiniRows(g, r) ELSE <<>>

(***************************************************************************)
(* Tabela 4: findMonthAnchors and the per-anchor extraction                *)
(***************************************************************************)
AnchorCols == 250
AnchorWindow == 20
SubHeaderWindow == 30
BlockWindow == 60
ValOffset == 2

SaidaLabels == {SAIDA_ACC, SAIDA}

\* (rows[r+1] || []).slice(c, c + n).map(x => String(x).trim().toLowerCase())
SubHeaderCells(g, r, c, n) ==
  IF HasRow(g, r + 1) THEN LowerCells(Slice(RowAt(g, r + 1), c, c + n)) ELSE <<>>

IsAnchor(g, r, c) ==
  LET val == Trim(JsString(CellAt(g, r, c)))
      next == SubHeaderCells(g, r, c, AnchorWindow)
  IN /\ val # <<>>
     /\ Truthy(MonthMapGet(normalize(Str(val))))
     /\ Includes(next, ENTRADA)
     /\ \E s \in SaidaLabels : Includes(next, s)

\* The places (r, c) in the order the two loops visit them: row by row, and left
\* to right in a row.
Places(g) ==
  CHOOSE places \in {[k \in 1..(Len(g) * w) |-> [r |-> (k - 1) \div w, c |-> (k - 1) % w]] :
                       w \in {MaxWidth(g)}} : TRUE

\* for (r ...) for (c = 0; c < Math.min(rows[r].length, 250); c++)
findMonthAnchors(g) ==
  Map(SelectSeq(Places(g),
                LAMBDA p : /\ p.c < Min(Len(RowAt(g, p.r)), AnchorCols)
                           /\ IsAnchor(g, p.r, p.c)),
      LAMBDA p : [month |-> Trim(JsString(CellAt(g, p.r, p.c))), r |-> p.r, c |-> p.c])

\* eRel and sRel of an anchor
ERel(g, a) == IndexOfAny(SubHeaderCells(g, a.r, a.c, SubHeaderWindow), {ENTRADA})
SRel(g, a) == IndexOfAny(SubHeaderCells(g, a.r, a.c, SubHeaderWindow), SaidaLabels)

\* One side of one row: the LineItem it pushes, as a sequence of zero or one item.
SideItems(g, r, descCol) ==
  LET desc == Trim(JsString(OrEmpty(CellOrUndefined(g, r, descCol))))
      n == brlToNumber(CellOrUndefined(g, r, descCol + ValOffset))
  IN IF desc # <<>> /\ normalize(Str(desc)) # CURRENCY_TOKEN /\ n.t # "null"
     THEN <<[desc |-> desc, amount |-> n]>>
     ELSE <<>>

SideDesc(g, r, descCol) == Trim(JsString(OrEmpty(CellOrUndefined(g, r, descCol))))

\* A loop that ends on the inflow side's "total" alone
BlockBreaksInflowOnly(g, r, eCol, sCol) == normalize(Str(SideDesc(g, r, eCol))) = TOTAL

\* if (normalize(descE) === "total" || normalize(descS) === "total") break;
BlockBreaks(g, r, eCol, sCol) ==
  \/ normalize(Str(SideDesc(g, r, eCol))) = TOTAL
  \/ normalize(Str(SideDesc(g, r, sCol))) = TOTAL

\* The items one side pushes in rows from..(stop - 1), in row order.
SideList(g, from, stop, descCol) ==
  Map(SelectSeq(Range(from, stop - 1), LAMBDA r : SideItems(g, r, descCol) # <<>>),
      LAMBDA r : SideItems(g, r, descCol)[1])

\* A loop that scans sixty rows below the sub-header: r < Math.min(rows.length, a.r + 62)
BlockRowsSixty(g, a, eCol, sCol) ==
  LET end == Min(Len(g), a.r + BlockWindow + 2)
      stop == FirstOf(a.r + 2, end - 1, LAMBDA r : BlockBreaks(g, r, eCol, sCol), end)
  IN [entradas |-> SideList(g, a.r + 2, stop, eCol),
      saidas |-> SideList(g, a.r + 2, stop, sCol)]

\* for (r = a.r + 2; r < Math.min(rows.length, a.r + 60); r++)
BlockRows(g, a, eCol, sCol) ==
  LET end == Min(Len(g), a.r + BlockWindow)
      stop == FirstOf(a.r + 2, end - 1, LAMBDA r : BlockBreaks(g, r, eCol, sCol), end)
  IN [entradas |-> SideList(g, a.r + 2, stop, eCol),
      saidas |-> SideList(g, a.r + 2, stop, sCol)]

\* The two lists as collected, before saidas is sorted.
CollectBlock(g, a) == BlockRows(g, a, a.c + ERel(g, a), a.c + SRel(g, a))

\* (a, b) => (b.amount || 0) - (a.amount || 0)
CompareSaidas(a, b) == b.amount.v - a.amount.v

\* A sort that is not stable: x goes before the items of its own amount
RECURSIVE InsertSortedUnstable(_, _)
InsertSortedUnstable(sorted, x) ==
  IF sorted = <<>> THEN <<x>>
  ELSE IF CompareSaidas(sorted[Len(sorted)], x) < 0 THEN Append(sorted, x)
  ELSE Append(InsertSortedUnstable(SubSeq(sorted, 1, Len(sorted) - 1), x), sorted[Len(sorted)])

\* x goes after the last item it does not precede: Array.prototype.sort is stable
RECURSIVE InsertSorted(_, _)
InsertSorted(sorted, x) ==
  IF sorted = <<>> THEN <<x>>
  ELSE IF CompareSaidas(sorted[Len(sorted)], x) <= 0 THEN Append(sorted, x)
  ELSE Append(InsertSorted(SubSeq(sorted, 1, Len(sorted) - 1), x), sorted[Len(sorted)])

RECURSIVE SortFrom(_, _, _)
SortFrom(items, i, sorted) ==
  IF i > Len(items) THEN sorted ELSE SortFrom(items, i + 1, InsertSorted(sorted, items[i]))

\* saidas.sort(...)
SortSaidas(items) == SortFrom(items, 1, <<>>)

PeriodDetail(g, a) ==
  LET lists == CollectBlock(g, a)
  IN [date |-> isoDateFromMonth(Str(a.month)),
      entradas |-> lists.entradas,
      saidas |-> SortSaidas(lists.saidas)]

PROTO == <<"_", "_", "p", "r", "o", "t", "o", "_", "_">>

\* obj[key] = value on the own properties of a plain object, kept in insertion order
SetOwn(own, key, value) ==
  IF \E i \in 1..Len(own) : own[i].key = key
  THEN [i \in 1..Len(own) |-> IF own[i].key = key THEN [key |-> key, value |-> value]
                              ELSE own[i]]
  ELSE Append(own, [key |-> key, value |-> value])

\* out.detalheMensal[a.month] = detail: the key __proto__ runs the inherited setter,
\* which replaces the object's prototype and adds no own property.
AssignDetail(obj, key, value) ==
  IF key = PROTO THEN [own |-> obj.own, proto |-> value]
  ELSE [own |-> SetOwn(obj.own, key, value), proto |-> obj.proto]

(***************************************************************************)
(* The sheets the extraction is run on.  sheet_to_json with defval "" fills *)
(* every row to the width of the sheet, so a grid is rectangular; a sheet  *)
(* narrower than a table leaves the table's last columns out of every row. *)
(***************************************************************************)
MaxBodyRows == 2
MaxItemRows == 3

S(s) == Str(s)
Empty == Str(<<>>)

SeqsUpTo(T, n) == UNION {[1..k -> T] : k \in 0..n}

Blanks(n, w) == [i \in 1..n |-> [j \in 1..w |-> Empty]]

\* A row cut or filled to w cells.
FitRow(row, w) == [j \in 1..w |-> IF j <= Len(row) THEN row[j] ELSE Empty]
Fit(g, w) == [i \in 1..Len(g) |-> FitRow(g[i], w)]

\* Sheets with the primary table: p blank rows, a header, then the body.
PrimaryHeader ==
  <<S(<<"m", "e_circ", "s">>), S(<<"E", "n", "t", "r", "a", "d", "a">>), S(<<"S", "A", "I_ACUTE", "D", "A", " ">>), S(<<" ", "L", "i", "q", "u", "i", "d", "o">>), S(<<"d", "i", "f">>), S(<<"c", "r", "e", "s", "c">>)>>

PrimaryBodyRows ==
  {<<S(<<"J", "a", "n", "e", "i", "r", "o">>), S(<<"1", ".", "0", "0", "0", ",", "0", "0">>), S(<<"5", "0", "0", ",", "0", "0">>), S(<<"5", "0", "0", ",", "0", "0">>), S(<<"0">>), S(<<"+", "5", "%">>)>>,
   <<S(<<" ", "f", "e", "v", "e", "r", "e", "i", "r", "o", " ">>), Num(200000), S(<<"R", "$", " ", "1", ".", "2", "3", "4", ",", "5", "6">>), S(<<"a", "b", "c">>), Empty, Empty>>,
   <<S(<<"M", "A", "R", "C_CEDILLA", "O">>), S(<<"R", "$", "5">>), S(<<"1", ",", "5">>), S(<<"-", "2", ",", "5", "0">>), Num(0), S(<<" ", "o", "k", " ">>)>>,
   <<S(<<"T", "o", "t", "a", "l">>), S(<<"9", ",", "0", "0">>), S(<<"9", ",", "0", "0">>), S(<<"9", ",", "0", "0">>), Empty, Empty>>,
   <<Empty, S(<<"7", ",", "0", "0">>), Empty, Empty, Empty, Empty>>,
   <<S(<<"o", "b", "s">>), S(<<"1", ",", "0", "0">>), S(<<"2", ",", "0", "0">>), S(<<"3", ",", "0", "0">>), S(<<"4", ",", "0", "0">>), S(<<"x">>)>>,
   <<S(<<"c", "o", "n", "s", "t", "r", "u", "c", "t", "o", "r">>), S(<<"1", ",", "0", "0">>), S(<<"2", ",", "0", "0">>), S(<<"3", ",", "0", "0">>), S(<<"4", ",", "0", "0">>), S(<<"x">>)>>}

\* The rows that matter at the edge of a scan window.
PrimaryEdgeRows ==
  {<<S(<<"J", "a", "n", "e", "i", "r", "o">>), S(<<"1", ".", "0", "0", "0", ",", "0", "0">>), S(<<"5", "0", "0", ",", "0", "0">>), S(<<"5", "0", "0", ",", "0", "0">>), S(<<"0">>), S(<<"+", "5", "%">>)>>,
   <<S(<<"T", "o", "t", "a", "l">>), S(<<"9", ",", "0", "0">>), S(<<"9", ",", "0", "0">>), S(<<"9", ",", "0", "0">>), Empty, Empty>>}

PrimarySheets ==
  {Fit(<<PrimaryHeader>> \o body, w) :
     w \in {4, 6}, body \in SeqsUpTo(PrimaryBodyRows, MaxBodyRows)}
  \cup {Fit(Blanks(p, 1) \o <<PrimaryHeader>> \o body, 6) :
          p \in {1, HeaderWindow - 1, HeaderWindow}, body \in SeqsUpTo(PrimaryEdgeRows, 2)}

\* Sheets with a mini table: p rows, a title row, a gap of blank rows, the body.
MiniTitleRows ==
  {<<S(<<"N", "u", "b", "a", "n", "k">>), Empty>>, <<S(<<"x">>), S(<<" ", "N", "U", "B", "A", "N", "K", " ">>)>>, <<S(<<"s", "a", "n", "t", "a", "n", "d", "e", "r">>), Empty>>}

MiniBodyRows ==
  {<<S(<<"J", "a", "n", "e", "i", "r", "o">>), S(<<"1", "0", "0", ",", "0", "0">>)>>,
   <<S(<<"a", "b", "r", "i", "l">>), Num(5050)>>,
   <<S(<<" ", "T", "O", "T", "A", "L">>), S(<<"1", "5", "0", ",", "5", "0">>)>>,
   <<Empty, S(<<"1", ",", "0", "0">>)>>,
   <<S(<<"S", "a", "n", "t", "a", "n", "d", "e", "r">>), S(<<"o", "b", "s">>)>>,
   <<S(<<"_", "_", "p", "r", "o", "t", "o", "_", "_">>), S(<<"2", ",", "0", "0">>)>>}

MiniEdgeRows ==
  {<<S(<<"J", "a", "n", "e", "i", "r", "o">>), S(<<"1", "0", "0", ",", "0", "0">>)>>, <<S(<<"a", "b", "r", "i", "l">>), Num(5050)>>, <<S(<<" ", "T", "O", "T", "A", "L">>), S(<<"1", "5", "0", ",", "5", "0">>)>>}

MiniSheets ==
  {Fit(Blanks(p, 1) \o <<title>> \o body, 2) :
     p \in {0, 1}, title \in MiniTitleRows, body \in SeqsUpTo(MiniBodyRows, MaxBodyRows)}
  \cup {Fit(<<title>> \o Blanks(gap, 1) \o body, 2) :
          title \in MiniTitleRows, gap \in {MiniWindow - 3, MiniWindow - 2, MiniWindow - 1},
          body \in SeqsUpTo(MiniEdgeRows, 2)}

\* Sheets with one block: the anchor at column c, the sub-header below it with
\* the inflow label at the anchor's column and the outflow label sOff columns to
\* its right, a gap of blank rows, then the item rows.
ItemRows ==
  {<<S(<<"S", "a", "l", "a_acute", "r", "i", "o">>), S(<<"R", "$">>), S(<<"3", ".", "0", "0", "0", ",", "0", "0">>), Empty, S(<<"A", "l", "u", "g", "u", "e", "l">>), S(<<"R", "$">>), S(<<"1", ".", "2", "0", "0", ",", "0", "0">>)>>,
   <<Empty, Empty, Empty, Empty, S(<<"L", "u", "z">>), S(<<"R", "$">>), S(<<"2", "0", "0", ",", "0", "0">>)>>,
   <<S(<<"B", "o_circ", "n", "u", "s">>), S(<<"R", "$">>), S(<<"a", "b", "c">>), Empty, S(<<"A_ACUTE", "g", "u", "a">>), S(<<"R", "$">>), Num(20000)>>,
   <<S(<<"T", "o", "t", "a", "l">>), S(<<"R", "$">>), S(<<"3", ".", "0", "0", "0", ",", "0", "0">>), Empty, S(<<"N", "e", "t">>), S(<<"R", "$">>), S(<<"5", "0", ",", "0", "0">>)>>,
   <<S(<<"E", "x", "t", "r", "a">>), S(<<"R", "$">>), Num(10000), Empty, S(<<" ", "T", "O", "T", "A", "L", " ">>), S(<<"R", "$">>), S(<<"1", ",", "0", "0">>)>>,
   <<S(<<"R", "$">>), Empty, S(<<"5", ",", "0", "0">>), Empty, S(<<"r", "$">>), Empty, S(<<"7", ",", "0", "0">>)>>,
   <<S(<<"F", "r", "e", "e", "l", "a">>), S(<<"R", "$">>), S(<<"R", "$", " ", "1", ".", "2", "3", "4", ",", "5", "6">>), Empty, S(<<"M", "e", "r", "c", "a", "d", "o">>), S(<<"R", "$">>), Empty>>,
   <<Empty, Empty, Empty, Empty, Empty, Empty, Empty>>}

ShiftRow(row, c) == [j \in 1..c |-> Empty] \o row
Shift(g, c) == [i \in 1..Len(g) |-> ShiftRow(g[i], c)]

SubHeaderRow(sOff) ==
  [j \in 1..(sOff + 1) |->
     IF j = 1 THEN S(<<"E", "n", "t", "r", "a", "d", "a">>) ELSE IF j = sOff + 1 THEN S(<<"S", "a", "i_acute", "d", "a">>) ELSE Empty]

\* The item rows of a block whose outflow group starts sOff columns right of the
\* inflow group (the rows above are written for sOff = 4).
PlaceItems(items, sOff) ==
  [i \in 1..Len(items) |->
     [j \in 1..(sOff + 3) |->
        IF j <= 3 THEN items[i][j]
        ELSE IF j > sOff THEN items[i][j - sOff + 4]
        ELSE Empty]]

Block(text, sOff, gap, items) ==
  <<<<S(text)>>, SubHeaderRow(sOff)>> \o Blanks(gap, 1) \o PlaceItems(items, sOff)

BlockTexts == {<<"F", "e", "v", "e", "r", "e", "i", "r", "o">>, <<" ", "M", "A", "R", "C_CEDILLA", "O">>, <<"c", "o", "n", "s", "t", "r", "u", "c", "t", "o", "r">>, <<"_", "_", "p", "r", "o", "t", "o", "_", "_">>}

ItemEdgeRows ==
  {<<S(<<"S", "a", "l", "a_acute", "r", "i", "o">>), S(<<"R", "$">>), S(<<"3", ".", "0", "0", "0", ",", "0", "0">>), Empty, S(<<"A", "l", "u", "g", "u", "e", "l">>), S(<<"R", "$">>), S(<<"1", ".", "2", "0", "0", ",", "0", "0">>)>>,
   <<Empty, Empty, Empty, Empty, S(<<"L", "u", "z">>), S(<<"R", "$">>), S(<<"2", "0", "0", ",", "0", "0">>)>>,
   <<S(<<"T", "o", "t", "a", "l">>), S(<<"R", "$">>), S(<<"3", ".", "0", "0", "0", ",", "0", "0">>), Empty, S(<<"N", "e", "t">>), S(<<"R", "$">>), S(<<"5", "0", ",", "0", "0">>)>>}

BlockSheets ==
  {Fit(Block(<<"F", "e", "v", "e", "r", "e", "i", "r", "o">>, 4, 0, items), 7) : items \in SeqsUpTo(ItemRows, MaxItemRows)}
  \cup {Fit(Shift(Block(text, 4, 0, items), c), 7 + c) :
          text \in BlockTexts, c \in {0, 1}, items \in SeqsUpTo(ItemEdgeRows, 2)}
  \cup {Fit(Block(<<"F", "e", "v", "e", "r", "e", "i", "r", "o">>, 4, gap, items), 7) :
          gap \in {BlockWindow - 3, BlockWindow - 2, BlockWindow - 1},
          items \in SeqsUpTo(ItemEdgeRows, 2)}

\* Sheets whose sub-header has the outflow label at the edge of the anchor window.
WideSheets ==
  {Fit(Block(<<"M", "a", "i", "o">>, sOff, 0, items), sOff + 3) :
     sOff \in {AnchorWindow - 1, AnchorWindow, SubHeaderWindow - 1, SubHeaderWindow},
     items \in SeqsUpTo(ItemRows, 1)}

\* Sheets with two blocks, side by side or one above the other.
PairTexts == {<<"J", "a", "n", "e", "i", "r", "o">>, <<"j", "a", "n", "e", "i", "r", "o">>, <<"J", "u", "n", "h", "o">>, <<"_", "_", "p", "r", "o", "t", "o", "_", "_">>}

PairItems ==
  [first |-> <<S(<<"S", "a", "l", "a_acute", "r", "i", "o">>), S(<<"R", "$">>), S(<<"3", ".", "0", "0", "0", ",", "0", "0">>), Empty, S(<<"A", "l", "u", "g", "u", "e", "l">>), S(<<"R", "$">>), S(<<"1", ".", "2", "0", "0", ",", "0", "0">>)>>,
   second |-> <<S(<<"V", "e", "n", "d", "a">>), S(<<"R", "$">>), S(<<"1", "0", ",", "0", "0">>), Empty, S(<<"L", "u", "z">>), S(<<"R", "$">>), S(<<"2", "0", "0", ",", "0", "0">>)>>]

SideBySide(t1, t2) ==
  LET a == Fit(Block(t1, 4, 0, <<PairItems.first>>), 8)
      b == Fit(Block(t2, 4, 0, <<PairItems.second>>), 7)
  IN [i \in 1..3 |-> a[i] \o b[i]]

Stacked(t1, t2, total) ==
  Fit(Block(t1, 4, 0, <<PairItems.first>>)
      \o (IF total THEN <<<<S(<<"T", "o", "t", "a", "l">>)>>>> ELSE <<>>)
      \o Block(t2, 4, 0, <<PairItems.second>>), 7)

PairSheets ==
  {SideBySide(t1, t2) : t1 \in PairTexts, t2 \in PairTexts}
  \cup {Stacked(t1, t2, total) : t1 \in PairTexts, t2 \in PairTexts, total \in BOOLEAN}

\* A workbook whose first sheet is empty gives no rows at all.
Sheets == {<<>>} \cup PrimarySheets \cup MiniSheets \cup BlockSheets \cup WideSheets
          \cup PairSheets

(***************************************************************************)
(* parseWorkbook, one action per pass and one per anchor                   *)
(***************************************************************************)
VARIABLES rows, pc, tabela1, tabela2, tabela3, anchors, nextAnchor,
          detalheMensal, discarded

\* The variables of fetchArrayBuffer, which parseWorkbook leaves alone.
VARIABLES fpc, candidate, attempt, requests, lastErr, waits, returned, thrown

parseVars == <<rows, pc, tabela1, tabela2, tabela3, anchors, nextAnchor,
               detalheMensal, discarded>>

fetchVars == <<fpc, candidate, attempt, requests, lastErr, waits, returned, thrown>>

vars == <<rows, pc, tabela1, tabela2, tabela3, anchors, nextAnchor, detalheMensal,
          discarded, fpc, candidate, attempt, requests, lastErr, waits, returned, thrown>>

ParseInit ==
  /\ rows \in Sheets
  /\ pc = "tabela1"
  /\ tabela1 = <<>>
  /\ tabela2 = <<>>
  /\ tabela3 = <<>>
  /\ anchors = <<>>
  /\ nextAnchor = 1
  /\ detalheMensal = [own |-> <<>>, proto |-> ObjectPrototype]
  /\ discarded = 0

Tabela1 ==
  /\ pc = "tabela1"
  /\ tabela1' = ParseTabela1(rows)
  /\ pc' = "tabela2"
  /\ UNCHANGED <<rows, tabela2, tabela3, anchors, nextAnchor, detalheMensal, discarded>>
  /\ UNCHANGED fetchVars

Tabela2 ==
  /\ pc = "tabela2"
  /\ tabela2' = parseMini(rows, NUBANK)
  /\ pc' = "tabela3"
  /\ UNCHANGED <<rows, tabela1, tabela3, anchors, nextAnchor, detalheMensal, discarded>>
  /\ UNCHANGED fetchVars

Tabela3 ==
  /\ pc = "tabela3"
  /\ tabela3' = parseMini(rows, SANTANDER)
  /\ pc' = "anchors"
  /\ UNCHANGED <<rows, tabela1, tabela2, anchors, nextAnchor, detalheMensal, discarded>>
  /\ UNCHANGED fetchVars

FindAnchors ==
  /\ pc = "anchors"
  /\ anchors' = findMonthAnchors(rows)
  /\ nextAnchor' = 1
  /\ pc' = "blocks"
  /\ UNCHANGED <<rows, tabela1, tabela2, tabela3, detalheMensal, discarded>>
  /\ UNCHANGED fetchVars

\* One iteration of for (const a of anchors)
ProcessAnchor ==
  /\ pc = "blocks"
  /\ nextAnchor <= Len(anchors)
  /\ LET a == anchors[nextAnchor]
     IN IF ERel(rows, a) < 0 \/ SRel(rows, a) < 0
        THEN /\ discarded' = discarded + 1
             /\ UNCHANGED detalheMensal
        ELSE /\ detalheMensal' = AssignDetail(detalheMensal, a.month, PeriodDetail(rows, a))
             /\ UNCHANGED discarded
  /\ nextAnchor' = nextAnchor + 1
  /\ UNCHANGED <<rows, pc, tabela1, tabela2, tabela3, anchors>>
  /\ UNCHANGED fetchVars

\* return out
Return ==
  /\ pc = "blocks"
  /\ nextAnchor > Len(anchors)
  /\ pc' = "done"
  /\ UNCHANGED <<rows, tabela1, tabela2, tabela3, anchors, nextAnchor, detalheMensal,
                 discarded>>
  /\ UNCHANGED fetchVars

(***************************************************************************)
(* fetchArrayBuffer with retries                                           *)
(***************************************************************************)
NumCandidates == 2
MaxAttempts == 3
BackoffMs == 1200
Forbidden == 403

\* What one fetch(cu) can come to: the request rejects; a response with a status
\* that is not ok; an ok response that is text/html; an ok response that is not
\* text/html whose body cannot be read to its end (arrayBuffer() rejects); an ok
\* response whose body is read.
Outcomes ==
  {[kind |-> "rejected", status |-> 0],
   [kind |-> "not_ok", status |-> Forbidden],
   [kind |-> "not_ok", status |-> 500],
   [kind |-> "html", status |-> 200],
   [kind |-> "body_failed", status |-> 200],
   [kind |-> "body", status |-> 200]}

NoError == [request |-> 0, kind |-> "none"]

FetchInit ==
  /\ fpc = "request"
  /\ candidate = 1
  /\ attempt = 1
  /\ requests = <<>>
  /\ lastErr = NoError
  /\ waits = <<>>
  /\ returned = 0
  /\ thrown = NoError

\* Loops that try the first candidate alone
NextAttemptOneCandidate ==
  IF attempt < MaxAttempts
  THEN /\ attempt' = attempt + 1
       /\ candidate' = candidate
       /\ fpc' = "request"
  ELSE /\ UNCHANGED <<attempt, candidate>>
       /\ fpc' = "exhausted"

\* The loops' next iteration after an attempt that did not return.
NextAttempt ==
  IF attempt < MaxAttempts
  THEN /\ attempt' = attempt + 1
       /\ candidate' = candidate
       /\ fpc' = "request"
  ELSE IF candidate < NumCandidates
  THEN /\ attempt' = 1
       /\ candidate' = candidate + 1
       /\ fpc' = "request"
  ELSE /\ UNCHANGED <<attempt, candidate>>
       /\ fpc' = "exhausted"

\* One pass through the try block: await fetch(cu, ...) and what follows it.
Request ==
  /\ fpc = "request"
  /\ \E o \in Outcomes :
       /\ requests' = Append(requests, [candidate |-> candidate, attempt |-> attempt,
                                        kind |-> o.kind, status |-> o.status])
       /\ IF o.kind = "body"
          THEN /\ returned' = Len(requests) + 1
               /\ fpc' = "returned"
               /\ UNCHANGED <<candidate, attempt, lastErr>>
          ELSE IF o.kind = "not_ok" /\ o.status = Forbidden /\ attempt < MaxAttempts
          THEN /\ fpc' = "backoff"
               /\ UNCHANGED <<candidate, attempt, lastErr, returned>>
          ELSE /\ lastErr' = [request |-> Len(requests) + 1, kind |-> o.kind]
               /\ NextAttempt
               /\ UNCHANGED returned
  /\ UNCHANGED <<waits, thrown>>
  /\ UNCHANGED parseVars

\* await new Promise(r => setTimeout(r, 1200 * attempt)); continue
Backoff ==
  /\ fpc = "backoff"
  /\ waits' = Append(waits, [after |-> Len(requests), ms |-> BackoffMs * attempt])
  /\ attempt' = attempt + 1
  /\ fpc' = "request"
  /\ UNCHANGED <<candidate, requests, lastErr, returned, thrown>>
  /\ UNCHANGED parseVars

\* throw lastErr ?? new Error("Falha ao baixar XLSX.")
Throw ==
  /\ fpc = "exhausted"
  /\ thrown' = IF lastErr = NoError THEN [request |-> 0, kind |-> "fallback"] ELSE lastErr
  /\ fpc' = "thrown"
  /\ UNCHANGED <<candidate, attempt, requests, lastErr, waits, returned>>
  /\ UNCHANGED parseVars

(***************************************************************************)
(* Specifications.  Spec: parseWorkbook on the downloaded workbook.         *)
(* SpecFetch: the download; each awaited promise settles and each timer    *)
(* fires, so every enabled step is eventually taken.                       *)
(***************************************************************************)
Downloaded ==
  /\ fpc = "returned"
  /\ candidate = 1
  /\ attempt = 1
  /\ requests = <<[candidate |-> 1, attempt |-> 1, kind |-> "body", status |-> 200]>>
  /\ lastErr = NoError
  /\ waits = <<>>
  /\ returned = 1
  /\ thrown = NoError

Init == ParseInit /\ Downloaded

Next ==
  \/ Tabela1
  \/ Tabela2
  \/ Tabela3
  \/ FindAnchors
  \/ ProcessAnchor
  \/ Return

Spec == Init /\ [][Next]_vars

NotParsing ==
  /\ rows = <<>>
  /\ pc = "download"
  /\ tabela1 = <<>>
  /\ tabela2 = <<>>
  /\ tabela3 = <<>>
  /\ anchors = <<>>
  /\ nextAnchor = 1
  /\ detalheMensal = [own |-> <<>>, proto |-> ObjectPrototype]
  /\ discarded = 0

InitFetch == FetchInit /\ NotParsing

NextFetch ==
  \/ Request
  \/ Backoff
  \/ Throw

SpecFetch == InitFetch /\ [][NextFetch]_vars /\ WF_vars(NextFetch)

(***************************************************************************)
(* Vocabulary of the properties                                            *)
(***************************************************************************)
\* The thirteen spellings of the twelve months, whatever the case and the
\* surrounding blanks.
IsMonthText(text) == \E i \in 1..Len(MonthNames) : MonthNames[i] = ToLowerCase(Trim(text))

IsTotalText(text) == ToLowerCase(Trim(text)) = TOTAL

\* Column 0 of row r as text.
Column0(g, r) == JsString(CellAt(g, r, 0))

\* The elements F(r) of the r in set, by ascending r.
ListOf(set, F(_)) ==
  [i \in 1..Cardinality(set) |->
     F(CHOOSE r \in set : Cardinality({q \in set : q < r}) = i - 1)]

\* The r of lo..hi that come before every r of lo..hi satisfying Stop.
Before(lo, hi, Stop(_)) ==
  LET stops == {q \in lo..hi : Stop(q)}
  IN {r \in lo..hi : \A q \in stops : r < q}

\* YYYY-MM-01 with MM in 01..12
IsIsoDate(d) ==
  /\ d.t = "str"
  /\ Len(d.s) = 10
  /\ \A i \in {1, 2, 3, 4, 6, 7} : IsDigit(d.s[i])
  /\ d.s[5] = "-"
  /\ DigitVal(d.s[6]) * 10 + DigitVal(d.s[7]) \in 1..12
  /\ SubSeq(d.s, 8, 10) = <<"-", "0", "1">>

DateOk(d) == d = Null \/ IsIsoDate(d)

\* The entries of out.detalheMensal that JSON.stringify writes: its own properties.
OwnKeys == {detalheMensal.own[i].key : i \in 1..Len(detalheMensal.own)}
OwnValue(key) ==
  detalheMensal.own[CHOOSE i \in 1..Len(detalheMensal.own) : detalheMensal.own[i].key = key].value

\* The anchor the last iteration of the anchor loop worked on, and what it stored.
InBlocks == pc = "blocks" /\ nextAnchor > 1
LastAnchor == anchors[nextAnchor - 1]
LastStored ==
  IF LastAnchor.month = PROTO THEN detalheMensal.proto ELSE OwnValue(LastAnchor.month)

(***************************************************************************)
(* C1: isoDateFromMonth gives null or YYYY-MM-01 with MM in 01..12 for     *)
(* every cell text, so every date of tabela1, tabela2, tabela3 and         *)
(* detalheMensal is null or such a string.                                 *)
(***************************************************************************)
C1_DatesWellFormed ==
  /\ \A i \in 1..Len(tabela1) : DateOk(tabela1[i].date)
  /\ \A i \in 1..Len(tabela2) : DateOk(tabela2[i].date)
  /\ \A i \in 1..Len(tabela3) : DateOk(tabela3[i].date)
  /\ \A i \in 1..Len(detalheMensal.own) : DateOk(detalheMensal.own[i].value.date)

(***************************************************************************)
(* C2: tabela1 is empty without a header in rows 0..79; otherwise it holds, *)
(* in row order, one SummaryRow for each row after the header and before   *)
(* the first "total" row whose column 0 is a month, columns 1..5 read as   *)
(* entrada, saida, liquido, diferenca_m1 and crescimento.                  *)
(***************************************************************************)
C2_HeaderRows(g) ==
  {r \in 0..(Min(Len(g), 80) - 1) :
     LET cells == LowerCells(RowAt(g, r))
     IN /\ Includes(cells, ENTRADA)
        /\ Includes(cells, SAIDA_ACC) \/ Includes(cells, SAIDA)
        /\ Includes(cells, LIQUIDO_ACC) \/ Includes(cells, LIQUIDO)}

C2_Row(g, r) ==
  [month |-> Str(Trim(Column0(g, r))),
   date |-> isoDateFromMonth(Str(Column0(g, r))),
   entrada |-> brlToNumber(CellAt(g, r, 1)),
   saida |-> brlToNumber(CellAt(g, r, 2)),
   liquido |-> brlToNumber(CellAt(g, r, 3)),
   diferenca_m1 |-> brlToNumber(CellAt(g, r, 4)),
   crescimento |-> TrimmedOrNull(CellAt(g, r, 5))]

C2_Expected(g) ==
  LET headers == C2_HeaderRows(g)
      header == CHOOSE r \in headers : \A q \in headers : r <= q
      data == Before(header + 1, Len(g) - 1, LAMBDA r : IsTotalText(Column0(g, r)))
  IN IF headers = {} THEN <<>>
     ELSE ListOf({r \in data : IsMonthText(Column0(g, r))}, LAMBDA r : C2_Row(g, r))

\* C2: tabela1 is exactly, in row order, the SummaryRows of the month rows between
\* the header (the first header row of rows 0..79) and the first "total" row, and
\* is empty without a header.
C2_PrimaryTable == pc = "done" => tabela1 = C2_Expected(rows)


(***************************************************************************)
(* C3: the rows a mini table is read from.                                 *)
(***************************************************************************)
Take(g, n) == SubSeq(g, 1, Min(n, Len(g)))

\* The rows with a cell equal to the title, whatever the case.
C3_TitleRows(g, title) ==
  {r \in 0..(Len(g) - 1) :
     \E c \in 0..(Len(RowAt(g, r)) - 1) :
        ToLowerCase(Trim(JsString(CellAt(g, r, c)))) = ToLowerCase(title)}

C3_Point(g, rr) ==
  [month |-> Str(Trim(Column0(g, rr))),
   date |-> isoDateFromMonth(Str(Column0(g, rr))),
   saida |-> brlToNumber(CellAt(g, rr, 1))]

\* Every month row among the n rows below the title row r, with no "total" row
\* before it, has its SeriesPoint in table.
C3_RowsProduce(g, r, n, table) ==
  \A rr \in Before(r + 1, Min(r + n, Len(g) - 1), LAMBDA q : IsTotalText(Column0(g, q))) :
     IsMonthText(Column0(g, rr)) => \E i \in 1..Len(table) : table[i] = C3_Point(g, rr)

\* The rows more than n below the title row r produce nothing: the table is what
\* the sheet cut after row r + n gives.
C3_NoRowBeyond(g, r, n, title, table) == table = parseMini(Take(g, r + n + 1), title)

C3_Reads(g, n, title, table) ==
  LET titles == C3_TitleRows(g, title)
      r == CHOOSE q \in titles : \A p \in titles : q <= p
  IN titles # {} => C3_RowsProduce(g, r, n, table) /\ C3_NoRowBeyond(g, r, n, title, table)

\* C3 as claimed: the 40 rows r+1 .. r+40 below the title row are read, so a
\* month row at r+40 with no "total" row before it produces a SeriesPoint, and no
\* row beyond r+40 does.
C3_FortyRows ==
  pc = "done" => C3_Reads(rows, 40, NUBANK, tabela2) /\ C3_Reads(rows, 40, SANTANDER, tabela3)

\* C3 as amended: the 39 rows r+1 .. r+39 below the title row are read, so a month
\* row at r+39 with no "total" row before it produces a SeriesPoint, and no row
\* beyond r+39 does.
C3_ThirtyNineRows ==
  pc = "done" => C3_Reads(rows, 39, NUBANK, tabela2) /\ C3_Reads(rows, 39, SANTANDER, tabela3)

\* A sheet with month rows at r+39 and r+40 below the Nubank title: one point.
C3_Witness ==
  /\ pc = "done"
  /\ \E r \in C3_TitleRows(rows, NUBANK) :
       /\ \A q \in C3_TitleRows(rows, NUBANK) : r <= q
       /\ r + 40 <= Len(rows) - 1
       /\ IsMonthText(Column0(rows, r + 39))
       /\ IsMonthText(Column0(rows, r + 40))
       /\ tabela2 = <<C3_Point(rows, r + 39)>>

(***************************************************************************)
(* C4 and C5: the rows and the sides a block's lists are made of.          *)
(***************************************************************************)
BlockDesc(g, r, col) == Trim(JsString(OrEmpty(CellOrUndefined(g, r, col))))

\* A side of a row is a line item: a description that is not empty and not the
\* bare "r$", and two columns to its right an amount that parses.
IsLineItem(g, r, col) ==
  /\ BlockDesc(g, r, col) # <<>>
  /\ ToLowerCase(BlockDesc(g, r, col)) # CURRENCY_TOKEN
  /\ brlToNumber(CellOrUndefined(g, r, col + 2)).t = "num"

LineItem(g, r, col) ==
  [desc |-> BlockDesc(g, r, col), amount |-> brlToNumber(CellOrUndefined(g, r, col + 2))]

\* The first columns of the sub-header window that hold the two labels.
InflowCol(g, a) == a.c + ERel(g, a)
OutflowCol(g, a) == a.c + SRel(g, a)

IsTotalRow(g, a, r) ==
  \/ IsTotalText(BlockDesc(g, r, InflowCol(g, a)))
  \/ IsTotalText(BlockDesc(g, r, OutflowCol(g, a)))

\* The rows among the n rows below the sub-header of anchor a that come before
\* the first "total" row.
RowsBeforeTotal(g, a, n) ==
  Before(a.r + 2, Min(a.r + 1 + n, Len(g) - 1), LAMBDA r : IsTotalRow(g, a, r))

C4_RowsProduce(g, a, n, detail) ==
  \A r \in RowsBeforeTotal(g, a, n) :
     /\ IsLineItem(g, r, InflowCol(g, a)) =>
          \E i \in 1..Len(detail.entradas) : detail.entradas[i] = LineItem(g, r, InflowCol(g, a))
     /\ IsLineItem(g, r, OutflowCol(g, a)) =>
          \E i \in 1..Len(detail.saidas) : detail.saidas[i] = LineItem(g, r, OutflowCol(g, a))

\* The rows more than n below the sub-header give nothing: the lists are those of
\* the sheet cut after row a.r + 1 + n.
C4_NoRowBeyond(g, a, n, detail) == detail = PeriodDetail(Take(g, a.r + 2 + n), a)

\* C4 as claimed: the 60 rows a+2 .. a+61 below the sub-header are scanned.
C4_SixtyRows ==
  InBlocks => /\ C4_RowsProduce(rows, LastAnchor, 60, LastStored)
              /\ C4_NoRowBeyond(rows, LastAnchor, 60, LastStored)

\* C4 as amended: the 58 rows a+2 .. a+59 below the sub-header are scanned, so a
\* line item in row a+59 with no "total" row before it is in the block's list,
\* and no row further down is.
C4_FiftyEightRows ==
  InBlocks => /\ C4_RowsProduce(rows, LastAnchor, 58, LastStored)
              /\ C4_NoRowBeyond(rows, LastAnchor, 58, LastStored)

\* A block with outflow items in rows a+59 and a+60: only the first is stored.
C4_Witness ==
  /\ InBlocks
  /\ LastAnchor.r + 60 <= Len(rows) - 1
  /\ LastAnchor.r + 60 \in RowsBeforeTotal(rows, LastAnchor, 60)
  /\ IsLineItem(rows, LastAnchor.r + 59, OutflowCol(rows, LastAnchor))
  /\ IsLineItem(rows, LastAnchor.r + 60, OutflowCol(rows, LastAnchor))
  /\ LastStored.saidas = <<LineItem(rows, LastAnchor.r + 59, OutflowCol(rows, LastAnchor))>>

\* s and t hold the same elements the same number of times.
SameItems(s, t) ==
  /\ Len(s) = Len(t)
  /\ \A x \in {s[i] : i \in 1..Len(s)} \cup {t[i] : i \in 1..Len(t)} :
       Cardinality({i \in 1..Len(s) : s[i] = x}) = Cardinality({i \in 1..Len(t) : t[i] = x})

\* C5: in a block the scan ends for both lists at the first row where either
\* description is "total", a row that gives nothing; of every scanned row before
\* it each side gives a LineItem exactly when it is a line item, whatever the
\* other side is, and every amount is a number.
C5_SidesAndTotal ==
  InBlocks =>
    LET a == LastAnchor
        scanned == RowsBeforeTotal(rows, a, BlockWindow - 2)
    IN /\ LastStored.entradas =
            ListOf({r \in scanned : IsLineItem(rows, r, InflowCol(rows, a))},
                   LAMBDA r : LineItem(rows, r, InflowCol(rows, a)))
       /\ SameItems(LastStored.saidas,
            ListOf({r \in scanned : IsLineItem(rows, r, OutflowCol(rows, a))},
                   LAMBDA r : LineItem(rows, r, OutflowCol(rows, a))))
       /\ \A i \in 1..Len(LastStored.entradas) : LastStored.entradas[i].amount.t = "num"
       /\ \A i \in 1..Len(LastStored.saidas) : LastStored.saidas[i].amount.t = "num"

\* A block with a row whose outflow side alone is a line item, then a row with a
\* "total" description on one side and a line item on the other, then one more
\* row with a line item: one outflow item, no inflow item.
C5_Witness ==
  /\ InBlocks
  /\ LET a == LastAnchor
     IN /\ ~IsLineItem(rows, a.r + 2, InflowCol(rows, a))
        /\ IsLineItem(rows, a.r + 2, OutflowCol(rows, a))
        /\ Len(rows) > a.r + 4
        /\ IsTotalText(BlockDesc(rows, a.r + 3, OutflowCol(rows, a)))
        /\ IsLineItem(rows, a.r + 3, InflowCol(rows, a))
        /\ IsLineItem(rows, a.r + 4, InflowCol(rows, a))
        /\ LastStored.entradas = <<>>
        /\ Len(LastStored.saidas) = 1

(***************************************************************************)
(* C6: the order of the two lists of a block.                              *)
(***************************************************************************)
Injections(n) == {p \in [1..n -> 1..n] : \A i, j \in 1..n : p[i] = p[j] => i = j}

IsStableDescending(sorted, collected) ==
  /\ Len(sorted) = Len(collected)
  /\ \E p \in Injections(Len(collected)) :
       /\ \A i \in 1..Len(sorted) : sorted[i] = collected[p[i]]
       /\ \A i, j \in 1..Len(sorted) :
            i < j => \/ collected[p[i]].amount.v > collected[p[j]].amount.v
                     \/ /\ collected[p[i]].amount.v = collected[p[j]].amount.v
                        /\ p[i] < p[j]

\* C6: saidas holds the collected outflow items by non-increasing amount, those of
\* equal amount in their row order, and entradas the inflow items in row order.
C6_SaidasSorted ==
  InBlocks =>
    /\ IsStableDescending(LastStored.saidas, CollectBlock(rows, LastAnchor).saidas)
    /\ LastStored.entradas = CollectBlock(rows, LastAnchor).entradas

\* A block whose outflow items were reordered and hold two of equal amount.
C6_Witness ==
  /\ InBlocks
  /\ LastStored.saidas # CollectBlock(rows, LastAnchor).saidas
  /\ \E i, j \in 1..Len(LastStored.saidas) :
       /\ i < j
       /\ LastStored.saidas[i].amount = LastStored.saidas[j].amount
       /\ LastStored.saidas[i].desc # LastStored.saidas[j].desc

(***************************************************************************)
(* C7: the anchors with one text and the entry of that text.               *)
(***************************************************************************)
Processed == IF pc = "blocks" \/ pc = "done" THEN 1..(nextAnchor - 1) ELSE {}

\* The last of the processed anchors with the text of anchor i.
LastWithText(i) ==
  CHOOSE j \in Processed :
    /\ anchors[j].month = anchors[i].month
    /\ \A k \in Processed : anchors[k].month = anchors[i].month => k <= j

\* The text of anchor i has one entry, which holds the lists of the last anchor
\* with that text.
LastWinsFor(i) ==
  /\ Cardinality({n \in 1..Len(detalheMensal.own) :
                    detalheMensal.own[n].key = anchors[i].month}) = 1
  /\ OwnValue(anchors[i].month) = PeriodDetail(rows, anchors[LastWithText(i)])

RowMajor ==
  \A i, j \in 1..Len(anchors) :
     i < j => \/ anchors[i].r < anchors[j].r
              \/ anchors[i].r = anchors[j].r /\ anchors[i].c < anchors[j].c

\* C7: anchors are worked on row by row and left to right; the entry of an
\* anchor's text holds exactly the lists of the last anchor with that text, and
\* anchors whose texts differ, be it by case, have entries of their own.
C7_LastAnchorWins ==
  /\ RowMajor
  /\ \A i \in Processed : LastWinsFor(i)
  /\ Cardinality(OwnKeys) = Cardinality({anchors[i].month : i \in Processed})

\* The same for the anchors whose text is one of the thirteen month spellings.
MonthAnchorsLastWins ==
  /\ RowMajor
  /\ \A i \in Processed : IsMonthText(anchors[i].month) => LastWinsFor(i)

\* Two anchors with one month text and different lists: the second one's are kept.
TwoAnchorsOneText ==
  /\ pc = "done"
  /\ \E i, j \in 1..Len(anchors) :
       /\ i < j
       /\ IsMonthText(anchors[i].month)
       /\ anchors[i].month = anchors[j].month
       /\ PeriodDetail(rows, anchors[i]).entradas # PeriodDetail(rows, anchors[j]).entradas
       /\ OwnValue(anchors[i].month) = PeriodDetail(rows, anchors[j])

(***************************************************************************)
(* C8: a cell missing from a short row reads as the empty string: a month  *)
(* row of the primary table with fewer than six cells gives a SummaryRow   *)
(* whose crescimento is null and whose missing numbers are null.           *)
(***************************************************************************)
C8_MissingCellsReadEmpty ==
  pc = "done" =>
    \A i \in 1..Len(tabela1) :
       /\ MaxWidth(rows) < 6 => tabela1[i].crescimento = Null
       /\ MaxWidth(rows) < 5 => tabela1[i].diferenca_m1 = Null

(***************************************************************************)
(* C10: no anchor is discarded, and the keys of detalheMensal are the      *)
(* texts of the anchors found.                                             *)
(***************************************************************************)
C10_EveryAnchorStored ==
  pc = "done" =>
    /\ discarded = 0
    /\ OwnKeys = {anchors[i].month : i \in 1..Len(anchors)}

(***************************************************************************)
(* C9: the requests of fetchArrayBuffer, checked on SpecFetch.             *)
(***************************************************************************)
\* Request k is attempt 1..3 of the first candidate, then of the second.
C9_InOrder ==
  /\ Len(requests) <= NumCandidates * MaxAttempts
  /\ \A k \in 1..Len(requests) :
       /\ requests[k].candidate = ((k - 1) \div MaxAttempts) + 1
       /\ requests[k].attempt = ((k - 1) % MaxAttempts) + 1

\* The call ends at the first request whose response is of one of the kinds.
C9_ReturnsFirst(kinds) ==
  /\ \A k \in 1..Len(requests) :
       requests[k].kind \in kinds =>
         k = Len(requests) /\ fpc = "returned" /\ returned = k
  /\ fpc = "returned" => returned = Len(requests) /\ requests[returned].kind \in kinds

\* The call throws after the last request, and throws that request's error.
C9_ThrowsLast ==
  fpc = "thrown" =>
    /\ Len(requests) = NumCandidates * MaxAttempts
    /\ thrown = [request |-> Len(requests), kind |-> requests[Len(requests)].kind]

\* Every wait follows a 403 response to attempt 1 or 2, one wait a response.
C9_WaitsAfter403 ==
  /\ \A w \in 1..Len(waits) :
       /\ waits[w].after \in 1..Len(requests)
       /\ requests[waits[w].after].kind = "not_ok"
       /\ requests[waits[w].after].status = Forbidden
       /\ requests[waits[w].after].attempt \in {1, 2}
  /\ \A v, w \in 1..Len(waits) : v < w => waits[v].after < waits[w].after

C9_Ended == fpc \in {"returned", "thrown"}

\* C9 as claimed: the call ends after at most 6 requests, in order; it returns at
\* the first response that is ok and not text/html and makes no request after it;
\* otherwise it throws the last attempt's error; it waits only after a 403 on
\* attempt 1 or 2.
C9_ReturnsFirstOkResponse ==
  /\ [](/\ C9_InOrder
        /\ C9_ReturnsFirst({"body", "body_failed"})
        /\ C9_ThrowsLast
        /\ C9_WaitsAfter403)
  /\ <>C9_Ended

\* C9 as amended: the call ends after at most 6 requests, in order; it returns at
\* the first response that is ok, not text/html and whose body is read to its
\* end, and makes no request after it; otherwise it throws the last attempt's
\* error; it waits only after a 403 on attempt 1 or 2.
C9_ReturnsFirstReadBody ==
  /\ [](/\ C9_InOrder
        /\ C9_ReturnsFirst({"body"})
        /\ C9_ThrowsLast
        /\ C9_WaitsAfter403)
  /\ <>C9_Ended

\* A call that returns the body of its fourth request, after a 403 it waited on
\* and an ok response whose body could not be read.
C9_Witness ==
  /\ fpc = "returned"
  /\ returned = 4
  /\ waits # <<>>
  /\ \E k \in 1..3 : requests[k].kind = "body_failed"

====
